---- MODULE Spec2Model ----
(***************************************************************************)
(* TransactionDB (src/transactions/transaction_db.rs): the lifecycle of    *)
(* one Database Handle, its column-family registry under the two thread    *)
(* modes, and the calls it issues to the storage engine.                   *)
(*                                                                         *)
(* The engine is an external collaborator: each engine call is modelled    *)
(* by the outcomes its C signature allows (an error string, a null         *)
(* pointer, a fresh pointer), chosen nondeterministically.                 *)
(***************************************************************************)
EXTENDS Integers, Sequences, FiniteSets, TLC

\* ------------------------------------------------------------------ bounds
\* Number of column-family names, besides the default one, that callers draw
\* from (see NamePool).
NumNames == 2
\* Longest descriptor list passed to open_cf / open_cf_descriptors.
MaxDescs == 2
\* Number of column-family handles the engine hands out in one run.
MaxHandles == 3
\* Number of concurrent callers sharing the Database Handle.
NumThreads == 2
\* Number of those handles that create_cf calls may get.
MaxCreates == 2
\* Most references to one column-family handle that callers hold at once.
MaxRefs == 1
\* Most iterators alive at once.
MaxIters == 1
\* Number of transactions begun in one run.
MaxTxns == 2
\* Most snapshots alive at once.
MaxSnaps == 1
\* Most transactions, snapshots, iterators and cf_handle references held at
\* once next to the registry operations (SpecRegistry).
MaxBorrows == 1

\* ------------------------------------------------------------ basic values
\* ptr::null_mut(): the null engine pointer.
NullPtr == 0

\* The pointer the engine returns for an opened database.
DbPtr == NullPtr + 1

\* DEFAULT_COLUMN_FAMILY_NAME, the bytes of "default".
DEFAULT_COLUMN_FAMILY_NAME == <<100, 101, 102, 97, 117, 108, 116>>

\* Names are byte strings: "default", "a", "a\0b" (interior NUL), "b", "c", "d".
NamePool ==
    << DEFAULT_COLUMN_FAMILY_NAME, <<97>>, <<97, 0, 98>>, <<98>>, <<99>>, <<100>> >>

Names == {NamePool[i] : i \in 1..NumNames + 1}

\* Paths are byte strings: "/d" and "/\0" (interior NUL).
Paths == {<<47, 100>>, <<47, 0>>}

Threads == 1..NumThreads

\* Keys and values of the stored data; NoVal is what a key without a value holds.
Keys == {"k"}

Vals == {"v1", "v2"}

NoVal == "absent"

\* The key field of a call that takes no key.
NoKey == ""

Handles == 1..MaxHandles

\* CString::new(bytes): fails on an interior NUL byte.
CStringNew(bytes) ==
    IF \E i \in 1..Len(bytes) : bytes[i] = 0
    THEN [ok |-> FALSE, cstr |-> <<>>]
    ELSE [ok |-> TRUE, cstr |-> bytes \o <<0>>]

\* to_cpath(path): the path as a CString, or an error.
to_cpath(path) == CStringNew(path)

\* Lexicographic order of byte strings (the key order of BTreeMap<String, _>).
RECURSIVE LexLess(_, _)
LexLess(a, b) ==
    IF Len(b) = 0 THEN FALSE
    ELSE IF Len(a) = 0 THEN TRUE
    ELSE IF Head(a) # Head(b) THEN Head(a) < Head(b)
    ELSE LexLess(Tail(a), Tail(b))

\* The keys of a map in ascending order.
RECURSIVE SortedKeys(_)
SortedKeys(S) ==
    IF S = {} THEN <<>>
    ELSE LET m == CHOOSE x \in S : \A y \in S \ {x} : LexLess(x, y)
         IN <<m>> \o SortedKeys(S \ {m})

\* The elements of a sequence, as a set.
Range(hs) == {hs[i] : i \in 1..Len(hs)}

\* Sequences over S of length 0..n.
SeqsUpTo(S, n) == UNION {[1..k -> S] : k \in 0..n}

\* ---------------------------------------------------------------- state
VARIABLES
    mode,      \* the ThreadMode T of TransactionDB<T>
    phase,     \* "new", "open", "failed", "panicked" or "dropped"
    inner,     \* TransactionDB.inner: the engine database pointer
    cfs,       \* TransactionDB.cfs: the registry, name -> column-family pointer
    refs,      \* per handle, the references callers hold (&ColumnFamily / Arc clones)
    iters,     \* live iterators borrowed from the Database Handle
    pending,   \* per thread, the MultiThreaded create_cf between its engine call and its insert
    ret,       \* the value the last public call returned
    calls,     \* the filesystem and engine lifecycle calls issued so far, in order
    engDb,     \* engine side: "none", "open" or "closed"
    engCf,     \* engine side: per handle "unissued", "live" or "released"
    engName,   \* engine side: the column family each handle refers to
    data,      \* engine side: the stored value per column family and key
    placed,    \* the handles that were ever put in the registry
    openArgs,  \* the arguments of the open call: path, descriptor names, directory creatable
    createdOk, \* the names for which a create_cf call has returned Ok
    outlive,   \* TransactionDB._outlive: the option-resource owners the handle keeps
    callerOpts,\* the caller still holds the Options it passed to open
    optRes,    \* engine side: per option-resource owner "none", "alive" or "released"
    txns,      \* the Transaction objects begun from the Database Handle
    engGet,    \* the engine lookups of the last get call, and the engine's answer
    snaps      \* live snapshots borrowed from the Database Handle

vars ==
    <<mode, phase, inner, cfs, refs, iters, pending, ret, calls,
      engDb, engCf, engName, data, placed, openArgs, createdOk,
      outlive, callerOpts, optRes, txns, engGet, snaps>>

\* The registry, the borrows and the lifecycle side of the state.
lifeVars ==
    <<mode, inner, cfs, refs, iters, pending, calls, engDb, engCf, engName,
      placed, openArgs, createdOk, snaps>>

\* The option resources.
optVars == <<outlive, callerOpts, optRes>>

\* SingleThreaded / MultiThreaded, the two ThreadMode policies.
Modes == {"SingleThreaded", "MultiThreaded"}

\* The empty BTreeMap.
EmptyMap == [n \in {} |-> NullPtr]

\* A thread that is in no create_cf call.
Idle == [active |-> FALSE, name |-> <<>>, h |-> NullPtr]

\* The shape of a returned value: status Ok / None / Err / Panic, the error
\* message, the arguments of the call (name, handle, key) and the payload (a
\* handle or a stored value).
Ret(op, status, err, name, h, key, val) ==
    [op |-> op, status |-> status, err |-> err, name |-> name, h |-> h,
     key |-> key, val |-> val]

\* The option-resource owners of an open call: 0 is the database Options,
\* i is the Options of the i-th descriptor.
Owners == 0..MaxDescs

TxnIds == 1..MaxTxns

\* The value a transaction's write buffer holds for a key it has not written.
Unset == "unset"

\* A transaction that has not been begun.
NoTxn ==
    [state |-> "none", inner |-> NullPtr, live |-> FALSE, buf |-> [k \in Keys |-> Unset]]

\* No get call has been made.
NoLookup == [n |-> 0, err |-> FALSE, val_ptr |-> NoVal]

\* The number of handles the engine has issued.
Issued == Cardinality({h \in Handles : engCf[h] # "unissued"})

Init ==
    /\ mode \in Modes
    /\ phase = "new"
    /\ inner = NullPtr
    /\ cfs = EmptyMap
    /\ refs = [h \in Handles |-> 0]
    /\ iters = 0
    /\ pending = [t \in Threads |-> Idle]
    /\ ret = Ret("none", "Ok", "", <<>>, NullPtr, NoKey, NoVal)
    /\ calls = <<>>
    /\ engDb = "none"
    /\ engCf = [h \in Handles |-> "unissued"]
    /\ engName = [h \in Handles |-> <<>>]
    /\ data = [n \in Names |-> [k \in Keys |-> NoVal]]
    /\ placed = {}
    /\ openArgs = [path |-> <<>>, cfs |-> <<>>, dirOk |-> TRUE]
    /\ createdOk = {}
    /\ outlive = <<>>
    /\ callerOpts = FALSE
    /\ optRes = [o \in Owners |-> "none"]
    /\ txns = [i \in TxnIds |-> NoTxn]
    /\ engGet = NoLookup
    /\ snaps = 0

\* One entry of the call log.
Call(op, h) == [op |-> op, h |-> h]

\* ------------------------------------------------------------------ open
\* WithDefault without the append: the descriptors exactly as given.
WithDefaultNoAppend(cfs_in) == cfs_in

\* Lines 203-210: the descriptor names with the default name appended when absent.
WithDefault(cfs_in) ==
    IF \E i \in 1..Len(cfs_in) : cfs_in[i] = DEFAULT_COLUMN_FAMILY_NAME
    THEN cfs_in
    ELSE Append(cfs_in, DEFAULT_COLUMN_FAMILY_NAME)

\* Lines 238-244: some returned column-family pointer is null.
AnyNullHandle(cfhandles) ==
    \E i \in 1..Len(cfhandles) : cfhandles[i] = NullPtr

\* ZipInsert with the handles taken from the far end: the i-th name gets the
\* handle of the i-th position from the last.
ZipInsertReversed(cfs_v, cfhandles) ==
    [n \in {cfs_v[i] : i \in 1..Len(cfs_v)} |->
        cfhandles[Len(cfs_v) + 1 - CHOOSE i \in 1..Len(cfs_v) :
            /\ cfs_v[i] = n
            /\ \A j \in (i + 1)..Len(cfs_v) : cfs_v[j] # n]]

\* Lines 246-248: cf_map.insert(name, handle) over the zipped pairs, in order
\* (a later insert under the same name replaces the earlier one).
ZipInsert(cfs_v, cfhandles) ==
    [n \in {cfs_v[i] : i \in 1..Len(cfs_v)} |->
        cfhandles[CHOOSE i \in 1..Len(cfs_v) :
            /\ cfs_v[i] = n
            /\ \A j \in (i + 1)..Len(cfs_v) : cfs_v[j] # n]]

\* CfsIsEmpty for an open that takes the multi-column-family path always.
CfsIsEmptyNever(cfs_in) == FALSE

\* Line 200: cfs.is_empty().
CfsIsEmpty(cfs_in) == Len(cfs_in) = 0

\* DirCreationFailed with the result of create_dir_all ignored.
DirCreationIgnored(dirOk) == FALSE

\* Line 190: fs::create_dir_all failed.
DirCreationFailed(dirOk) == ~dirOk

\* Line 251: db.is_null().
DbIsNull(db) == db = NullPtr

\* The pointers the engine's multi-column-family open writes to cfhandles:
\* a fresh pointer per position, or null at the positions in eng.nulls.
EngineHandles(n, eng) ==
    [i \in 1..n |-> IF i \in eng.nulls THEN NullPtr ELSE i]

\* The outcome of an open attempt: what is returned, and what was called.
OpenOutcome(status, err, db, cf_map, log, edb, ehandles, enames, outl) ==
    [status |-> status, err |-> err, db |-> db, cf_map |-> cf_map, log |-> log,
     edb |-> edb, ehandles |-> ehandles, enames |-> enames, outlive |-> outl]

\* OutliveSet without the descriptors' owners: only the database Options'.
OutliveSetOptsOnly(cfs_in) == <<0>>

\* Lines 184-186: the owner of opts, then the owner of each descriptor's
\* options, in order.
OutliveSet(cfs_in) == <<0>> \o [i \in 1..Len(cfs_in) |-> i]

\* Lines 173-261: open_cf_descriptors_internal.  path and cfs_in are the
\* caller's arguments; dirOk is whether the directory tree can be created;
\* eng is what the engine does: eng.err (it reports an error), eng.dbNull
\* (it returns a null database pointer), eng.nulls (the positions at which
\* it returns a null column-family pointer).
open_cf_descriptors_internal(path, cfs_in, dirOk, eng) ==
    LET mkdir == <<Call("create_dir_all", NullPtr)>>
        db    == IF eng.dbNull THEN NullPtr ELSE DbPtr
        outl  == OutliveSet(cfs_in)
    IN
    IF ~to_cpath(path).ok
    THEN OpenOutcome("Err", "Failed to convert path to CString when opening DB.",
                     NullPtr, EmptyMap, <<>>, NullPtr, <<>>, <<>>, <<>>)
    ELSE IF DirCreationFailed(dirOk)
    THEN OpenOutcome("Err", "Failed to create RocksDB directory",
                     NullPtr, EmptyMap, mkdir, NullPtr, <<>>, <<>>, <<>>)
    ELSE IF CfsIsEmpty(cfs_in)
    THEN \* open_raw, lines 263-276
         LET log == mkdir \o <<Call("open", NullPtr)>> IN
         IF eng.err
         THEN OpenOutcome("Err", "engine", NullPtr, EmptyMap, log, NullPtr, <<>>, <<>>, <<>>)
         ELSE IF DbIsNull(db)
         THEN OpenOutcome("Err", "Could not initialize database.",
                          NullPtr, EmptyMap, log, db, <<>>, <<>>, <<>>)
         ELSE OpenOutcome("Ok", "", db, EmptyMap, log, db, <<>>, <<>>, outl)
    ELSE LET cfs_v == WithDefault(cfs_in) IN
         \* line 215: CString::new(name).unwrap()
         IF \E i \in 1..Len(cfs_v) : ~CStringNew(cfs_v[i]).ok
         THEN OpenOutcome("Panic", "unwrap", NullPtr, EmptyMap, mkdir, NullPtr, <<>>, <<>>, <<>>)
         ELSE \* open_cf_raw, lines 278-299
              LET log       == mkdir \o <<Call("open_column_families", NullPtr)>>
                  cfhandles == EngineHandles(Len(cfs_v), eng)
              IN
              IF eng.err
              THEN OpenOutcome("Err", "engine", NullPtr, EmptyMap, log, NullPtr, <<>>, <<>>, <<>>)
              ELSE IF AnyNullHandle(cfhandles)
              THEN OpenOutcome("Err", "Received null column family handle from DB.",
                               NullPtr, EmptyMap, log, db, cfhandles, cfs_v, <<>>)
              ELSE IF DbIsNull(db)
              THEN OpenOutcome("Err", "Could not initialize database.",
                               NullPtr, EmptyMap, log, db, cfhandles, cfs_v, <<>>)
              ELSE OpenOutcome("Ok", "", db, ZipInsert(cfs_v, cfhandles), log,
                               db, cfhandles, cfs_v, outl)

\* T::new_cf_map_internal(cf_map): the registry that wraps each pointer of
\* cf_map in the mode's handle type (ColumnFamily, or Arc<UnboundColumnFamily>).
new_cf_map_internal(cf_map) == cf_map

\* The engine's release of the resources of the owners os, in order.
ReleaseCalls(os) == [i \in 1..Len(os) |-> Call("options_release", os[i])]

\* The elements of the sequence os that satisfy keep, in order.
RECURSIVE SelectOwners(_, _)
SelectOwners(os, keep) ==
    IF Len(os) = 0 THEN <<>>
    ELSE (IF Head(os) \in keep THEN <<Head(os)>> ELSE <<>>) \o SelectOwners(Tail(os), keep)

\* The descriptors' owners that nothing holds once open has returned: the
\* descriptors were moved into the call and are dropped in it, so an owner
\* lives on only as a clone in the _outlive of the returned Database Handle.
DroppedAtReturn(cfs_in, r) ==
    SelectOwners([i \in 1..Len(cfs_in) |-> i],
                 {i \in 1..Len(cfs_in) : r.status # "Ok" \/ i \notin Range(r.outlive)})

\* What the engine may do in an open of n descriptors.
EngineOpenChoices(n) ==
    [err : BOOLEAN, dbNull : BOOLEAN, nulls : SUBSET (1..n)]

\* open / open_cf / open_cf_descriptors (lines 129-170): all three reach
\* open_cf_descriptors_internal with the caller's names, open with none.
\* descs is the set the caller's descriptor list is drawn from.
OpenWith(descs) ==
    /\ phase = "new"
    /\ \E path \in Paths, cfs_in \in descs, dirOk \in BOOLEAN :
       \E eng \in EngineOpenChoices(Len(WithDefault(cfs_in))) :
          LET r == open_cf_descriptors_internal(path, cfs_in, dirOk, eng) IN
          /\ Len(cfs_in) + 1 <= MaxHandles
          /\ phase' = CASE r.status = "Ok" -> "open"
                        [] r.status = "Err" -> "failed"
                        [] OTHER -> "panicked"
          /\ inner' = r.db
          /\ cfs' = new_cf_map_internal(r.cf_map)
          /\ placed' = {r.cf_map[n] : n \in DOMAIN r.cf_map}
          /\ ret' = Ret("open", r.status, r.err, <<>>, r.db, NoKey, NoVal)
          /\ calls' = calls \o r.log \o ReleaseCalls(DroppedAtReturn(cfs_in, r))
          /\ outlive' = r.outlive
          /\ callerOpts' = TRUE
          /\ optRes' = [o \in Owners |->
                          IF o = 0 THEN "alive"
                          ELSE IF o \in Range(DroppedAtReturn(cfs_in, r)) THEN "released"
                          ELSE IF o <= Len(cfs_in) THEN "alive"
                          ELSE "none"]
          /\ engDb' = IF r.edb # NullPtr THEN "open" ELSE engDb
          /\ engCf' = [h \in Handles |->
                         IF \E i \in 1..Len(r.ehandles) : r.ehandles[i] = h
                         THEN "live" ELSE engCf[h]]
          /\ engName' = [h \in Handles |->
                           IF \E i \in 1..Len(r.ehandles) : r.ehandles[i] = h
                           THEN r.enames[CHOOSE i \in 1..Len(r.ehandles) : r.ehandles[i] = h]
                           ELSE engName[h]]
          /\ openArgs' = [path |-> path, cfs |-> cfs_in, dirOk |-> dirOk]
          /\ UNCHANGED <<snaps, mode, refs, iters, pending, data, createdOk>>
    /\ UNCHANGED <<txns, engGet>>

\* open, open_cf, open_cf_descriptors with any descriptor list.
Open == OpenWith(SeqsUpTo(Names, MaxDescs))

\* open_default / open (lines 121-135): no descriptors.
OpenPlain == OpenWith({<<>>})

\* ------------------------------------------------- column-family handles
\* Drop for ColumnFamily / UnboundColumnFamily: the engine's
\* column_family_handle_destroy on the wrapped pointer.
DestroyCalls(hs) == [i \in 1..Len(hs) |-> Call("column_family_handle_destroy", hs[i])]

\* The engine's handle table after it issued `created` and destroyed `destroyed`.
EngineCf(created, destroyed) ==
    [h \in Handles |->
        IF h \in destroyed THEN "released"
        ELSE IF h \in created THEN "live"
        ELSE engCf[h]]

\* The column family each handle refers to, after a create call returned r.
EngineName(r, name) ==
    IF r.ok /\ r.h # NullPtr THEN [engName EXCEPT ![r.h] = name] ELSE engName

\* The registry still holds handle h.
InRegistry(h) == \E n \in DOMAIN cfs : cfs[n] = h

\* The strong references to handle h: the registry's and the callers'.
StrongCount(h) == (IF InRegistry(h) THEN 1 ELSE 0) + refs[h]

\* ExclusiveAccess for a method that takes &self: nothing is required.
SharedAccess == TRUE

\* TxnBorrows for a Transaction that is not tied to the lifetime of the
\* Database Handle: it holds no borrow.
TxnBorrowsNone == {}

\* Lines 344-348: transaction_opt<'a>(&'a self, ..) -> Transaction<'a, Self>:
\* the Transaction objects that are alive, each a borrow of the Database Handle.
TxnBorrows == {i \in TxnIds : txns[i].live}

\* &mut self: no other borrow of the Database Handle is alive.
ExclusiveAccess ==
    /\ \A h \in Handles : refs[h] = 0
    /\ iters = 0
    /\ \A t \in Threads : ~pending[t].active
    /\ TxnBorrows = {}
    /\ snaps = 0

\* The smallest pointer the engine has not handed out yet.
FreshHandle == CHOOSE h \in Handles : engCf[h] = "unissued" /\
                   \A g \in Handles : engCf[g] = "unissued" => h <= g

\* What the engine may do in a create-column-family call.
EngineCreateChoices == [err : BOOLEAN, null : BOOLEAN]

\* A null pointer sits in the registry or in a create_cf call in progress.
NullAbout ==
    \/ \E n \in DOMAIN cfs : cfs[n] = NullPtr
    \/ \E t \in Threads : pending[t].active /\ pending[t].h = NullPtr

\* The number of handles the engine issued in the open call.
OpenIssued == IF Len(openArgs.cfs) = 0 THEN 0 ELSE Len(WithDefault(openArgs.cfs))

\* The run hands out at most MaxHandles pointers, MaxCreates of them to
\* create_cf calls, and one null pointer at a time: a call that would return
\* a fresh pointer needs one left.
EngineCanCreate(name, eng) ==
    \/ eng.err
    \/ ~CStringNew(name).ok
    \/ eng.null /\ ~NullAbout
    \/ ~eng.null /\ Issued < MaxHandles /\ Issued - OpenIssued < MaxCreates

\* Lines 301-320: create_inner_cf_handle.  The name is converted first; the
\* engine is called only with a converted name; its pointer is returned as is.
create_inner_cf_handle(name, eng) ==
    IF ~CStringNew(name).ok
    THEN [ok |-> FALSE, err |-> "Failed to convert path to CString when creating cf",
          h |-> NullPtr, called |-> FALSE]
    ELSE IF eng.err
    THEN [ok |-> FALSE, err |-> "engine", h |-> NullPtr, called |-> TRUE]
    ELSE [ok |-> TRUE, err |-> "",
          h |-> IF eng.null THEN NullPtr ELSE FreshHandle, called |-> TRUE]

\* MapInsert that keeps the new entry only: the other names are lost.
MapInsertOnly(map, name, h) == [n \in {name} |-> h]

\* BTreeMap::insert(name, h): the map with name bound to h.
MapInsert(map, name, h) ==
    [n \in DOMAIN map \cup {name} |-> IF n = name THEN h ELSE map[n]]

\* RegistryAfterCreate without the insert: create_cf that forgets the handle.
RegistryAfterCreateNoInsert(r, name) == cfs

\* RegistryAfterCreate with the insert ahead of the error check: a failed
\* call binds the name to the null pointer it got.
RegistryAfterCreateAlways(r, name) == MapInsert(cfs, name, r.h)

\* Lines 735-739: the `?` on create_inner_cf_handle returns before the
\* insert; only a successful call reaches it.
RegistryAfterCreate(r, name) ==
    IF r.ok THEN MapInsert(cfs, name, r.h) ELSE cfs

\* The handle wrappers dropped when name is rebound in the registry.
Replaced(name) == IF name \in DOMAIN cfs THEN <<cfs[name]>> ELSE <<>>

\* Lines 732-740: TransactionDB<SingleThreaded>::create_cf(&mut self, ..).
CreateCfSingle ==
    /\ phase = "open"
    /\ mode = "SingleThreaded"
    /\ ExclusiveAccess
    /\ \E name \in Names, eng \in EngineCreateChoices :
          /\ EngineCanCreate(name, eng)
          /\ LET r == create_inner_cf_handle(name, eng) IN
             /\ engName' = EngineName(r, name)
             /\ cfs' = RegistryAfterCreate(r, name)
             /\ IF r.ok
                THEN \* the replaced ColumnFamily, if any, is dropped by insert
                     /\ calls' = calls \o DestroyCalls(Replaced(name))
                     /\ engCf' = EngineCf({r.h}, Range(Replaced(name)))
                     /\ placed' = placed \cup ({r.h} \ {NullPtr})
                     /\ createdOk' = createdOk \cup {name}
                     /\ ret' = Ret("create_cf", "Ok", "", name, NullPtr, NoKey, NoVal)
                ELSE /\ ret' = Ret("create_cf", "Err", r.err, name, NullPtr, NoKey, NoVal)
                     /\ UNCHANGED <<calls, engCf, placed, createdOk>>
    /\ UNCHANGED <<snaps, mode, phase, inner, refs, iters, pending, engDb, data, openArgs>>
    /\ UNCHANGED <<outlive, callerOpts, optRes, txns, engGet>>

\* Lines 743-745: TransactionDB<SingleThreaded>::cf_handle(&self, name):
\* the borrowed entry, or None.
CfHandleSingle ==
    /\ phase = "open"
    /\ mode = "SingleThreaded"
    /\ \E name \in Names :
          IF name \in DOMAIN cfs
          THEN /\ cfs[name] # NullPtr => refs[cfs[name]] < MaxRefs
               /\ refs' = IF cfs[name] # NullPtr
                          THEN [refs EXCEPT ![cfs[name]] = @ + 1] ELSE refs
               /\ ret' = Ret("cf_handle", "Ok", "", name, cfs[name], NoKey, NoVal)
          ELSE /\ ret' = Ret("cf_handle", "None", "", name, NullPtr, NoKey, NoVal)
               /\ UNCHANGED refs
    /\ UNCHANGED <<snaps, mode, phase, inner, cfs, iters, pending, calls,
                   engDb, engCf, engName, data, placed, openArgs, createdOk>>
    /\ UNCHANGED <<outlive, callerOpts, optRes, txns, engGet>>

\* Lines 750-751: TransactionDB<MultiThreaded>::create_cf(&self, ..), up to
\* the return of create_inner_cf_handle (an error returns at once).
CreateCfCall(t) ==
    /\ phase = "open"
    /\ mode = "MultiThreaded"
    /\ ~pending[t].active
    /\ \E name \in Names, eng \in EngineCreateChoices :
          /\ EngineCanCreate(name, eng)
          /\ LET r == create_inner_cf_handle(name, eng) IN
             /\ engName' = EngineName(r, name)
             /\ IF r.ok
                THEN /\ pending' = [pending EXCEPT ![t] =
                                       [active |-> TRUE, name |-> name, h |-> r.h]]
                     /\ engCf' = EngineCf({r.h}, {})
                     /\ UNCHANGED ret
                ELSE /\ ret' = Ret("create_cf", "Err", r.err, name, NullPtr, NoKey, NoVal)
                     /\ UNCHANGED <<pending, engCf>>
    /\ UNCHANGED <<snaps, mode, phase, inner, cfs, refs, iters, calls, engDb, data, placed,
                   openArgs, createdOk>>
    /\ UNCHANGED <<outlive, callerOpts, optRes, txns, engGet>>

\* ReplacedLast for entries that are not reference-counted: the replaced
\* entry is released whoever still holds it.
ReplacedAlways(name) == Replaced(name)

\* The Arcs whose last strong reference goes when name is rebound.
ReplacedLast(name) ==
    IF name \in DOMAIN cfs /\ (cfs[name] = NullPtr \/ refs[cfs[name]] = 0)
    THEN <<cfs[name]>> ELSE <<>>

\* CreateCfInsert with try_write() in place of write(): the insert is skipped
\* when another create_cf is in progress, and Ok is returned all the same.
CreateCfInsertTryWrite(t) ==
    /\ phase = "open"
    /\ mode = "MultiThreaded"
    /\ pending[t].active
    /\ LET name == pending[t].name
           h    == pending[t].h
           busy == \E u \in Threads \ {t} : pending[u].active
       IN /\ cfs' = IF busy THEN cfs ELSE MapInsert(cfs, name, h)
          /\ calls' = IF busy THEN calls ELSE calls \o DestroyCalls(ReplacedLast(name))
          /\ engCf' = IF busy THEN engCf ELSE EngineCf({}, Range(ReplacedLast(name)))
          /\ placed' = IF busy THEN placed ELSE placed \cup ({h} \ {NullPtr})
          /\ createdOk' = createdOk \cup {name}
          /\ ret' = Ret("create_cf", "Ok", "", name, NullPtr, NoKey, NoVal)
    /\ pending' = [pending EXCEPT ![t] = Idle]
    /\ UNCHANGED <<snaps, mode, phase, inner, refs, iters, engDb, engName, data, openArgs>>
    /\ UNCHANGED <<outlive, callerOpts, optRes, txns, engGet>>

\* Lines 752-756: the insert under the write lock, and the return.
CreateCfInsert(t) ==
    /\ phase = "open"
    /\ mode = "MultiThreaded"
    /\ pending[t].active
    /\ LET name == pending[t].name
           h    == pending[t].h
       IN /\ cfs' = MapInsert(cfs, name, h)
          /\ calls' = calls \o DestroyCalls(ReplacedLast(name))
          /\ engCf' = EngineCf({}, Range(ReplacedLast(name)))
          /\ placed' = placed \cup ({h} \ {NullPtr})
          /\ createdOk' = createdOk \cup {name}
          /\ ret' = Ret("create_cf", "Ok", "", name, NullPtr, NoKey, NoVal)
    /\ pending' = [pending EXCEPT ![t] = Idle]
    /\ UNCHANGED <<snaps, mode, phase, inner, refs, iters, engDb, engName, data, openArgs>>
    /\ UNCHANGED <<outlive, callerOpts, optRes, txns, engGet>>

\* Lines 759-768: TransactionDB<MultiThreaded>::cf_handle(&self, name): a
\* clone of the entry's Arc taken under the read lock, or None.
CfHandleMulti ==
    /\ phase = "open"
    /\ mode = "MultiThreaded"
    /\ \E name \in Names :
          IF name \in DOMAIN cfs
          THEN /\ cfs[name] # NullPtr => refs[cfs[name]] < MaxRefs
               /\ refs' = IF cfs[name] # NullPtr
                          THEN [refs EXCEPT ![cfs[name]] = @ + 1] ELSE refs
               /\ ret' = Ret("cf_handle", "Ok", "", name, cfs[name], NoKey, NoVal)
          ELSE /\ ret' = Ret("cf_handle", "None", "", name, NullPtr, NoKey, NoVal)
               /\ UNCHANGED refs
    /\ UNCHANGED <<snaps, mode, phase, inner, cfs, iters, pending, calls,
                   engDb, engCf, engName, data, placed, openArgs, createdOk>>
    /\ UNCHANGED <<outlive, callerOpts, optRes, txns, engGet>>

\* A caller lets go of a reference it got from cf_handle: the borrow ends
\* (SingleThreaded), or the Arc clone is dropped and, being the last strong
\* reference, drops the handle (MultiThreaded).
DropRef ==
    /\ phase = "open"
    /\ \E h \in Handles :
          /\ refs[h] > 0
          /\ refs' = [refs EXCEPT ![h] = @ - 1]
          /\ IF mode = "MultiThreaded" /\ StrongCount(h) = 1
             THEN /\ calls' = calls \o DestroyCalls(<<h>>)
                  /\ engCf' = EngineCf({}, {h})
             ELSE UNCHANGED <<calls, engCf>>
    /\ UNCHANGED <<snaps, mode, phase, inner, cfs, iters, pending, ret,
                   engDb, engName, data, placed, openArgs, createdOk>>
    /\ UNCHANGED <<outlive, callerOpts, optRes, txns, engGet>>

\* -------------------------------------------------------------- teardown
\* T::drop_all_cfs_internal(): the registry is cleared, which drops every
\* entry in key order.
drop_all_cfs_internal == [i \in 1..Cardinality(DOMAIN cfs) |-> cfs[SortedKeys(DOMAIN cfs)[i]]]

\* DropCalls with the database closed before the registry's entries are
\* dropped (what leaving the entries to the field drop would do).
DropCallsCloseFirst == <<Call("close", inner)>> \o DestroyCalls(drop_all_cfs_internal)

\* DropCalls with the database closed twice.
DropCallsCloseTwice ==
    DestroyCalls(drop_all_cfs_internal) \o <<Call("close", inner), Call("close", inner)>>

\* Lines 771-777: the engine calls of Drop, in order: the column-family
\* handles of the registry, then the database.
DropCalls == DestroyCalls(drop_all_cfs_internal) \o <<Call("close", inner)>>

\* The owners of _outlive whose last holder is the Database Handle: the
\* fields are dropped after drop() has run, _outlive last (lines 66-71).
OutliveDropped == SelectOwners(outlive, {o \in Owners : o # 0 \/ ~callerOpts})

\* Lines 771-777: impl Drop for TransactionDB.  drop(&mut self) runs when the
\* owner lets the value go, which the borrows handed out by &self calls
\* (column-family references, iterators, calls in progress) must not outlive.
Drop ==
    /\ phase = "open"
    /\ ExclusiveAccess
    /\ phase' = "dropped"
    /\ calls' = calls \o DropCalls \o ReleaseCalls(OutliveDropped)
    /\ optRes' = [o \in Owners |->
                    IF o \in Range(OutliveDropped) THEN "released" ELSE optRes[o]]
    /\ cfs' = EmptyMap
    /\ engCf' = EngineCf({}, Range(drop_all_cfs_internal))
    /\ engDb' = "closed"
    /\ ret' = Ret("drop", "Ok", "", <<>>, NullPtr, NoKey, NoVal)
    /\ UNCHANGED <<snaps, mode, inner, refs, iters, pending, engName, data, placed,
                   openArgs, createdOk>>
    /\ UNCHANGED <<outlive, callerOpts, txns, engGet>>

\* ------------------------------------------------------- reads and writes
\* GetResult without the null check: the pointer is taken for a value
\* whatever it is.
GetResultNoNullCheck(op, name, h, key, engErr, val_ptr) ==
    IF engErr THEN Ret(op, "Err", "engine", name, h, key, NoVal)
    ELSE Ret(op, "Ok", "", name, h, key, val_ptr)

\* GetResult with the engine's error dropped: an error reads as no value.
GetResultErrAsNone(op, name, h, key, engErr, val_ptr) ==
    IF engErr \/ val_ptr = NoVal THEN Ret(op, "None", "", name, h, key, NoVal)
    ELSE Ret(op, "Ok", "", name, h, key, val_ptr)

\* Lines 377-398 and 401-424: the result of get_opt / get_cf_opt from what
\* the engine reports: an error, a null value pointer, or a value.
GetResult(op, name, h, key, engErr, val_ptr) ==
    IF engErr THEN Ret(op, "Err", "engine", name, h, key, NoVal)
    ELSE IF val_ptr = NoVal THEN Ret(op, "None", "", name, h, key, NoVal)
    ELSE Ret(op, "Ok", "", name, h, key, val_ptr)

\* CfTarget for a call that drops its column-family argument: the engine
\* acts on the default column family.
CfTargetDefault(h) == DEFAULT_COLUMN_FAMILY_NAME

\* cf.inner() handed to the engine (lines 412, 475): the column family the
\* engine resolves the pointer to.
CfTarget(h) == engName[h]

\* One call of the engine's get: an error, or a pointer to a copy of the
\* value stored under the key in that column family (null when none is).
EngineLookup(name, k, engErr) ==
    [n |-> 1, err |-> engErr, val_ptr |-> IF engErr THEN NoVal ELSE data[name][k]]

\* Lines 363-365, 377-398: get / get_opt on the default column family.
Get ==
    /\ phase = "open"
    /\ \E k \in Keys, engErr \in BOOLEAN :
          LET ans == EngineLookup(DEFAULT_COLUMN_FAMILY_NAME, k, engErr) IN
          /\ ret' = GetResult("get", DEFAULT_COLUMN_FAMILY_NAME, NullPtr, k,
                              ans.err, ans.val_ptr)
          /\ engGet' = ans
    /\ UNCHANGED <<snaps, mode, phase, inner, cfs, refs, iters, pending, calls,
                   engDb, engCf, engName, data, placed, openArgs, createdOk>>
    /\ UNCHANGED <<outlive, callerOpts, optRes, txns>>

\* Lines 368-374, 401-424: get_cf / get_cf_opt through a held reference.
GetCf ==
    /\ phase = "open"
    /\ \E h \in Handles, k \in Keys, engErr \in BOOLEAN :
          /\ refs[h] > 0
          /\ LET ans == EngineLookup(CfTarget(h), k, engErr) IN
             /\ ret' = GetResult("get_cf", CfTarget(h), h, k, ans.err, ans.val_ptr)
             /\ engGet' = ans
    /\ UNCHANGED <<snaps, mode, phase, inner, cfs, refs, iters, pending, calls,
                   engDb, engCf, engName, data, placed, openArgs, createdOk>>
    /\ UNCHANGED <<outlive, callerOpts, optRes, txns>>

\* Lines 426-432, 442-458: put / put_opt on the default column family.
Put ==
    /\ phase = "open"
    /\ \E k \in Keys, v \in Vals, engErr \in BOOLEAN :
          IF engErr
          THEN /\ ret' = Ret("put", "Err", "engine", DEFAULT_COLUMN_FAMILY_NAME, NullPtr, k, v)
               /\ UNCHANGED data
          ELSE /\ ret' = Ret("put", "Ok", "", DEFAULT_COLUMN_FAMILY_NAME, NullPtr, k, v)
               /\ data' = [data EXCEPT ![DEFAULT_COLUMN_FAMILY_NAME][k] = v]
    /\ UNCHANGED <<snaps, mode, phase, inner, cfs, refs, iters, pending, calls,
                   engDb, engCf, engName, placed, openArgs, createdOk>>
    /\ UNCHANGED <<outlive, callerOpts, optRes, txns, engGet>>

\* Lines 434-440, 460-483: put_cf / put_cf_opt through a held reference.
PutCf ==
    /\ phase = "open"
    /\ \E h \in Handles, k \in Keys, v \in Vals, engErr \in BOOLEAN :
          /\ refs[h] > 0
          /\ IF engErr
             THEN /\ ret' = Ret("put_cf", "Err", "engine", CfTarget(h), h, k, v)
                  /\ UNCHANGED data
             ELSE /\ ret' = Ret("put_cf", "Ok", "", CfTarget(h), h, k, v)
                  /\ data' = [data EXCEPT ![CfTarget(h)][k] = v]
    /\ UNCHANGED <<snaps, mode, phase, inner, cfs, refs, iters, pending, calls,
                   engDb, engCf, engName, placed, openArgs, createdOk>>
    /\ UNCHANGED <<outlive, callerOpts, optRes, txns, engGet>>

\* Lines 563-565, 575-589: delete / delete_opt on the default column family.
Delete ==
    /\ phase = "open"
    /\ \E k \in Keys, engErr \in BOOLEAN :
          IF engErr
          THEN /\ ret' = Ret("delete", "Err", "engine", DEFAULT_COLUMN_FAMILY_NAME, NullPtr, k, NoVal)
               /\ UNCHANGED data
          ELSE /\ ret' = Ret("delete", "Ok", "", DEFAULT_COLUMN_FAMILY_NAME, NullPtr, k, NoVal)
               /\ data' = [data EXCEPT ![DEFAULT_COLUMN_FAMILY_NAME][k] = NoVal]
    /\ UNCHANGED <<snaps, mode, phase, inner, cfs, refs, iters, pending, calls,
                   engDb, engCf, engName, placed, openArgs, createdOk>>
    /\ UNCHANGED <<outlive, callerOpts, optRes, txns, engGet>>

\* Lines 609-623: iterator(&'a self, ..): an iterator that borrows the handle.
IteratorNew ==
    /\ phase = "open"
    /\ iters < MaxIters
    /\ iters' = iters + 1
    /\ ret' = Ret("iterator", "Ok", "", <<>>, NullPtr, NoKey, NoVal)
    /\ UNCHANGED <<snaps, mode, phase, inner, cfs, refs, pending, calls,
                   engDb, engCf, engName, data, placed, openArgs, createdOk>>
    /\ UNCHANGED <<outlive, callerOpts, optRes, txns, engGet>>

\* The iterator goes out of scope: its borrow of the handle ends.
IteratorDrop ==
    /\ phase = "open"
    /\ iters > 0
    /\ iters' = iters - 1
    /\ UNCHANGED <<snaps, mode, phase, inner, cfs, refs, pending, ret, calls,
                   engDb, engCf, engName, data, placed, openArgs, createdOk>>
    /\ UNCHANGED <<outlive, callerOpts, optRes, txns, engGet>>

\* opts: &Options (lines 129-135): the caller lets go of the
\* Options it lent to open; their resources live on while _outlive of a live
\* Database Handle holds a clone of their owner.
OptionsDrop ==
    /\ phase \in {"open", "failed", "dropped"}
    /\ callerOpts
    /\ callerOpts' = FALSE
    /\ IF phase = "open" /\ 0 \in Range(outlive)
       THEN UNCHANGED <<calls, optRes>>
       ELSE /\ calls' = calls \o ReleaseCalls(<<0>>)
            /\ optRes' = [optRes EXCEPT ![0] = "released"]
    /\ UNCHANGED <<snaps, mode, phase, inner, cfs, refs, iters, pending, ret,
                   engDb, engCf, engName, data, placed, openArgs, createdOk>>
    /\ UNCHANGED <<outlive, txns, engGet>>

\* Lines 567-573, 591-607: delete_cf / delete_cf_opt through a held reference.
DeleteCf ==
    /\ phase = "open"
    /\ \E h \in Handles, k \in Keys, engErr \in BOOLEAN :
          /\ refs[h] > 0
          /\ IF engErr
             THEN /\ ret' = Ret("delete_cf", "Err", "engine", CfTarget(h), h, k, NoVal)
                  /\ UNCHANGED data
             ELSE /\ ret' = Ret("delete_cf", "Ok", "", CfTarget(h), h, k, NoVal)
                  /\ data' = [data EXCEPT ![CfTarget(h)][k] = NoVal]
    /\ UNCHANGED <<phase, lifeVars, optVars, txns, engGet>>

\* Lines 504-510, 520-536: merge / merge_opt on the default column family.
\* The merged value is the engine's (its merge operator's) to compute.
Merge ==
    /\ phase = "open"
    /\ \E k \in Keys, v \in Vals, merged \in Vals, engErr \in BOOLEAN :
          IF engErr
          THEN /\ ret' = Ret("merge", "Err", "engine", DEFAULT_COLUMN_FAMILY_NAME, NullPtr, k, v)
               /\ UNCHANGED data
          ELSE /\ ret' = Ret("merge", "Ok", "", DEFAULT_COLUMN_FAMILY_NAME, NullPtr, k, v)
               /\ data' = [data EXCEPT ![DEFAULT_COLUMN_FAMILY_NAME][k] = merged]
    /\ UNCHANGED <<phase, lifeVars, optVars, txns, engGet>>

\* Lines 512-518, 538-561: merge_cf / merge_cf_opt through a held reference.
MergeCf ==
    /\ phase = "open"
    /\ \E h \in Handles, k \in Keys, v \in Vals, merged \in Vals, engErr \in BOOLEAN :
          /\ refs[h] > 0
          /\ IF engErr
             THEN /\ ret' = Ret("merge_cf", "Err", "engine", CfTarget(h), h, k, v)
                  /\ UNCHANGED data
             ELSE /\ ret' = Ret("merge_cf", "Ok", "", CfTarget(h), h, k, v)
                  /\ data' = [data EXCEPT ![CfTarget(h)][k] = merged]
    /\ UNCHANGED <<phase, lifeVars, optVars, txns, engGet>>

\* What a write batch holds: nothing, or a put or a delete of a key of the
\* default column family.
Batches ==
    {[op |-> "none", key |-> NoKey, val |-> NoVal]}
        \cup [op : {"put"}, key : Keys, val : Vals]
        \cup [op : {"delete"}, key : Keys, val : {NoVal}]

\* Lines 485-502: write / write_opt: the batch is applied by the engine as a
\* whole, or not at all.
Write ==
    /\ phase = "open"
    /\ \E batch \in Batches, engErr \in BOOLEAN :
          IF engErr
          THEN /\ ret' = Ret("write", "Err", "engine", DEFAULT_COLUMN_FAMILY_NAME, NullPtr,
                             batch.key, batch.val)
               /\ UNCHANGED data
          ELSE /\ ret' = Ret("write", "Ok", "", DEFAULT_COLUMN_FAMILY_NAME, NullPtr,
                             batch.key, batch.val)
               /\ data' = IF batch.op = "none" THEN data
                          ELSE [data EXCEPT ![DEFAULT_COLUMN_FAMILY_NAME][batch.key] = batch.val]
    /\ UNCHANGED <<phase, lifeVars, optVars, txns, engGet>>

\* Lines 727-729 (and 77-79): snapshot(&self): a snapshot that borrows the
\* Database Handle.
SnapshotNew ==
    /\ phase = "open"
    /\ snaps < MaxSnaps
    /\ snaps' = snaps + 1
    /\ ret' = Ret("snapshot", "Ok", "", <<>>, NullPtr, NoKey, NoVal)
    /\ UNCHANGED <<mode, phase, inner, cfs, refs, iters, pending, calls,
                   engDb, engCf, engName, data, placed, openArgs, createdOk>>
    /\ UNCHANGED <<optVars, txns, engGet>>

\* Lines 81-85: the snapshot goes out of scope: release_snapshot, and its
\* borrow of the handle ends.
SnapshotDrop ==
    /\ phase = "open"
    /\ snaps > 0
    /\ snaps' = snaps - 1
    /\ UNCHANGED <<mode, phase, inner, cfs, refs, iters, pending, ret, calls,
                   engDb, engCf, engName, data, placed, openArgs, createdOk>>
    /\ UNCHANGED <<optVars, txns, engGet>>

\* ---------------------------------------------------------- transactions
\* Lines 349-359: the Transaction that transaction_opt builds around the
\* pointer rocksdb_transaction_begin returned: the pointer is stored as it is.
transaction_opt(ptr) ==
    [state |-> "Active", inner |-> ptr, live |-> TRUE, buf |-> [k \in Keys |-> Unset]]

\* Lines 339-360: transaction / transaction_opt.  The engine returns a
\* transaction pointer or null; there is no error channel in this call.
TransactionBegin ==
    /\ phase = "open"
    /\ \E i \in TxnIds, engNull \in BOOLEAN :
          /\ txns[i].state = "none"
          /\ \A j \in 1..(i - 1) : txns[j].state # "none"
          /\ txns' = [txns EXCEPT ![i] = transaction_opt(IF engNull THEN NullPtr ELSE i)]
          /\ ret' = Ret("transaction", "Ok", "", <<>>, i, NoKey, NoVal)
    /\ UNCHANGED <<phase, lifeVars, optVars, data, engGet>>

\* A put, get, commit or rollback through a Transaction whose engine pointer
\* is null: the engine dereferences the pointer and the process ends.
TxnUseNull ==
    /\ phase = "open"
    /\ \E i \in TxnIds, op \in {"txn_put", "txn_get", "txn_commit", "txn_rollback"} :
          /\ txns[i].live
          /\ txns[i].inner = NullPtr
          /\ ret' = Ret(op, "Crash", "null transaction", <<>>, i, NoKey, NoVal)
    /\ phase' = "crashed"
    /\ UNCHANGED <<lifeVars, optVars, data, txns, engGet>>

\* TxnWriteData for a transaction that writes through to the database.
TxnWriteThrough(k, v) == [data EXCEPT ![DEFAULT_COLUMN_FAMILY_NAME][k] = v]

\* The stored data after a put inside a transaction: as before, the write
\* is buffered in the transaction.
TxnWriteData(k, v) == data

\* Transaction put: buffered while Active, an engine error otherwise.
TxnPut ==
    /\ phase = "open"
    /\ \E i \in TxnIds, k \in Keys, v \in Vals, engErr \in BOOLEAN :
          /\ txns[i].live
          /\ txns[i].inner # NullPtr
          /\ IF txns[i].state = "Active" /\ ~engErr
             THEN /\ txns' = [txns EXCEPT ![i].buf[k] = v]
                  /\ data' = TxnWriteData(k, v)
                  /\ ret' = Ret("txn_put", "Ok", "", <<>>, i, k, v)
             ELSE /\ ret' = Ret("txn_put", "Err", "engine", <<>>, i, k, v)
                  /\ UNCHANGED <<txns, data>>
    /\ UNCHANGED <<phase, lifeVars, optVars, engGet>>

\* What a transaction reads under a key: its own write, else the stored value.
TxnRead(i, k) ==
    IF txns[i].buf[k] # Unset THEN txns[i].buf[k] ELSE data[DEFAULT_COLUMN_FAMILY_NAME][k]

\* Transaction get: reads the transaction's own writes.
TxnGet ==
    /\ phase = "open"
    /\ \E i \in TxnIds, k \in Keys, engErr \in BOOLEAN :
          /\ txns[i].live
          /\ txns[i].inner # NullPtr
          /\ ret' = IF txns[i].state = "Active" /\ ~engErr
                    THEN Ret("txn_get", IF TxnRead(i, k) = NoVal THEN "None" ELSE "Ok",
                             "", <<>>, i, k, TxnRead(i, k))
                    ELSE Ret("txn_get", "Err", "engine", <<>>, i, k, NoVal)
    /\ UNCHANGED <<phase, lifeVars, optVars, data, txns, engGet>>

\* CommitState for a commit that ends the transaction whether or not it
\* went through.
CommitStateAlwaysDone(conflict) == "Committed"

\* The state after a commit of an Active transaction: Committed, or still
\* Active when the engine found a conflict.
CommitState(conflict) == IF conflict THEN "Active" ELSE "Committed"

\* The stored data with the buffered writes of transaction i applied.
Committed(i) ==
    [data EXCEPT ![DEFAULT_COLUMN_FAMILY_NAME] =
        [k \in Keys |-> IF txns[i].buf[k] # Unset THEN txns[i].buf[k] ELSE @[k]]]

\* Transaction commit.
TxnCommit ==
    /\ phase = "open"
    /\ \E i \in TxnIds, conflict \in BOOLEAN :
          /\ txns[i].live
          /\ txns[i].inner # NullPtr
          /\ IF txns[i].state = "Active"
             THEN /\ txns' = [txns EXCEPT ![i].state = CommitState(conflict),
                                          ![i].buf = IF conflict THEN @ ELSE NoTxn.buf]
                  /\ data' = IF conflict THEN data ELSE Committed(i)
                  /\ ret' = IF conflict
                            THEN Ret("txn_commit", "Err", "conflict", <<>>, i, NoKey, NoVal)
                            ELSE Ret("txn_commit", "Ok", "", <<>>, i, NoKey, NoVal)
             ELSE /\ ret' = Ret("txn_commit", "Err", "engine", <<>>, i, NoKey, NoVal)
                  /\ UNCHANGED <<txns, data>>
    /\ UNCHANGED <<phase, lifeVars, optVars, engGet>>

\* Transaction rollback: the buffered writes are discarded.
TxnRollback ==
    /\ phase = "open"
    /\ \E i \in TxnIds :
          /\ txns[i].live
          /\ txns[i].inner # NullPtr
          /\ IF txns[i].state = "Active"
             THEN /\ txns' = [txns EXCEPT ![i].state = "RolledBack", ![i].buf = NoTxn.buf]
                  /\ ret' = Ret("txn_rollback", "Ok", "", <<>>, i, NoKey, NoVal)
             ELSE /\ ret' = Ret("txn_rollback", "Err", "engine", <<>>, i, NoKey, NoVal)
                  /\ UNCHANGED txns
    /\ UNCHANGED <<phase, lifeVars, optVars, data, engGet>>

\* The Transaction goes out of scope: its borrow of the Database Handle
\* ends; one that was neither committed nor rolled back is abandoned and its
\* buffered writes are discarded.
TxnDrop ==
    /\ phase = "open"
    /\ \E i \in TxnIds :
          /\ txns[i].live
          /\ txns' = [txns EXCEPT ![i].live = FALSE,
                                  ![i].state = IF @ = "Active" THEN "Abandoned" ELSE @,
                                  ![i].buf = NoTxn.buf]
          /\ ret' = Ret("txn_drop", "Ok", "", <<>>, i, NoKey, NoVal)
    /\ UNCHANGED <<phase, lifeVars, optVars, data, engGet>>

Next ==
    \/ Open
    \/ CreateCfSingle
    \/ CfHandleSingle
    \/ \E t \in Threads : CreateCfCall(t)
    \/ \E t \in Threads : CreateCfInsert(t)
    \/ CfHandleMulti
    \/ DropRef
    \/ Drop
    \/ Get
    \/ GetCf
    \/ Put
    \/ PutCf
    \/ Delete
    \/ IteratorNew
    \/ IteratorDrop
    \/ OptionsDrop
    \/ DeleteCf
    \/ Merge
    \/ MergeCf
    \/ TransactionBegin
    \/ TxnUseNull
    \/ TxnPut
    \/ TxnGet
    \/ TxnCommit
    \/ TxnRollback
    \/ TxnDrop
    \/ Write
    \/ SnapshotNew
    \/ SnapshotDrop

Spec == Init /\ [][Next]_vars

\* The handle lifecycle and the registry: every operation that opens, looks
\* up, creates, borrows or tears down.  The reads and writes of stored data
\* issue no lifecycle call and touch no handle; they are left to Spec.
LifecycleNext ==
    \/ Open
    \/ CreateCfSingle
    \/ CfHandleSingle
    \/ \E t \in Threads : CreateCfCall(t)
    \/ \E t \in Threads : CreateCfInsert(t)
    \/ CfHandleMulti
    \/ DropRef
    \/ Drop
    \/ IteratorNew
    \/ IteratorDrop

SpecLifecycle == Init /\ [][LifecycleNext]_vars

\* The registry of a Database Handle opened without descriptors, together
\* with the reads and writes that go through a column-family handle.
CfDataNext ==
    \/ OpenPlain
    \/ CreateCfSingle
    \/ CfHandleSingle
    \/ \E t \in Threads : CreateCfCall(t)
    \/ \E t \in Threads : CreateCfInsert(t)
    \/ CfHandleMulti
    \/ DropRef
    \/ Drop
    \/ GetCf
    \/ PutCf

SpecCfData == Init /\ [][CfDataNext]_vars

\* Transactions next to the direct reads and writes of the default column
\* family.
TxnNext ==
    \/ Open
    \/ TransactionBegin
    \/ TxnUseNull
    \/ TxnPut
    \/ TxnGet
    \/ TxnCommit
    \/ TxnRollback
    \/ TxnDrop
    \/ Get
    \/ Put
    \/ Drop

SpecTxn == Init /\ [][TxnNext]_vars

\* The reads and writes of the default column family and of the column
\* families that open bound, through their handles.
DataNext ==
    \/ Open
    \/ CfHandleSingle
    \/ CfHandleMulti
    \/ DropRef
    \/ Get
    \/ GetCf
    \/ Put
    \/ PutCf
    \/ Delete
    \/ DeleteCf
    \/ Merge
    \/ MergeCf
    \/ Drop

SpecData == Init /\ [][DataNext]_vars

\* The option resources over the life of the Database Handle.
OptionsNext ==
    \/ Open
    \/ OptionsDrop
    \/ CfHandleSingle
    \/ CfHandleMulti
    \/ DropRef
    \/ Drop

SpecOptions == Init /\ [][OptionsNext]_vars

\* The references handed out by cf_handle that are still held.
RECURSIVE HeldRefs(_)
HeldRefs(S) ==
    IF S = {} THEN 0
    ELSE LET h == CHOOSE x \in S : TRUE IN refs[h] + HeldRefs(S \ {h})

\* Lines 338-360, 609-623, 727-729, 743-745, 760-768: what callers hold of the
\* Database Handle: the transactions, snapshots and iterators that are alive,
\* each with the `&'a self` it was made from, and the references cf_handle
\* returned.
Borrows == Cardinality(TxnBorrows) + snaps + iters + HeldRefs(Handles)

\* transaction, snapshot, iterator and cf_handle with at most MaxBorrows of
\* their results held at once.
BorrowNew ==
    /\ Borrows < MaxBorrows
    /\ \/ TransactionBegin
       \/ SnapshotNew
       \/ IteratorNew
       \/ CfHandleSingle
       \/ CfHandleMulti

\* The registry next to every kind of call the Database Handle takes: the
\* reads and writes of the default column family, batches, transactions,
\* snapshots and iterators.  MultiThreaded create_cf is called from one
\* thread here; concurrent create_cf calls are the subject of SpecLifecycle.
RegistryNext ==
    \/ OpenPlain
    \/ CreateCfSingle
    \/ CreateCfCall(1)
    \/ CreateCfInsert(1)
    \/ Get
    \/ Put
    \/ Merge
    \/ Delete
    \/ Write
    \/ BorrowNew

SpecRegistry == Init /\ [][RegistryNext]_vars

\* ------------------------------------------------------------ properties
\* The positions of the call log that hold a close of the database.
ClosePositions == {i \in 1..Len(calls) : calls[i].op = "close"}

\* The positions of the call log that hold a release of a column-family handle.
DestroyPositions == {i \in 1..Len(calls) : calls[i].op = "column_family_handle_destroy"}

\* The positions of the call log that release handle h.
DestroyPositionsOf(h) == {i \in DestroyPositions : calls[i].h = h}

\* C1: in both thread modes, after any calls, no release of a column-family
\* handle follows the close of the database in the call log, and once the
\* Database Handle is dropped every handle that was in the registry has been
\* released at a position before the close.
C1_ReleaseBeforeClose ==
    /\ \A i \in ClosePositions : \A j \in DestroyPositions : j < i
    /\ phase = "dropped" =>
          /\ ClosePositions # {}
          /\ \A h \in placed : \E j \in DestroyPositionsOf(h) :
                \A i \in ClosePositions : j < i

\* C1 witness: a dropped handle whose registry held a handle from open and
\* one from create_cf, both released.
C1_Witness ==
    /\ phase = "dropped"
    /\ createdOk # {}
    /\ Cardinality(placed) >= 2
    /\ \A h \in placed : DestroyPositionsOf(h) # {}

\* C2: the database is closed at most once and each column-family handle is
\* released at most once; once the Database Handle is dropped the database
\* has been closed exactly once and every handle that was ever in the
\* registry has been released exactly once.
C2_DestroyedExactlyOnce ==
    /\ Cardinality(ClosePositions) <= 1
    /\ \A h \in Handles : Cardinality(DestroyPositionsOf(h)) <= 1
    /\ phase = "dropped" =>
          /\ Cardinality(ClosePositions) = 1
          /\ \A h \in placed : Cardinality(DestroyPositionsOf(h)) = 1

\* C2 witness: a dropped handle, one of whose handles was replaced in the
\* registry (and released then) before the drop released the other.
C2_Witness ==
    /\ phase = "dropped"
    /\ \E h \in placed, g \in placed :
          /\ h # g
          /\ engName[h] = engName[g]

\* The last call returned was a successful open: the state is the one open
\* constructed (every later call that changes the registry also returns).
JustOpened == ret.op = "open" /\ ret.status = "Ok"

\* The descriptor names given to open hold no default name.
NoDefaultGiven ==
    \A i \in 1..Len(openArgs.cfs) : openArgs.cfs[i] # DEFAULT_COLUMN_FAMILY_NAME

\* C3 as stated: after a successful open with any descriptor set that holds
\* no default-named descriptor, the registry holds a handle under the
\* default name.
C3_AsStated ==
    (JustOpened /\ NoDefaultGiven) => DEFAULT_COLUMN_FAMILY_NAME \in DOMAIN cfs

\* C3 amended: after a successful open with a non-empty descriptor set that
\* holds no default-named descriptor, the registry holds a non-null handle
\* under the default name, which the engine made for the default column family.
C3_DefaultAddedWhenNonEmpty ==
    (JustOpened /\ NoDefaultGiven /\ Len(openArgs.cfs) > 0) =>
        /\ DEFAULT_COLUMN_FAMILY_NAME \in DOMAIN cfs
        /\ cfs[DEFAULT_COLUMN_FAMILY_NAME] # NullPtr
        /\ engName[cfs[DEFAULT_COLUMN_FAMILY_NAME]] = DEFAULT_COLUMN_FAMILY_NAME

\* C3 witness: a successful open with a single descriptor that is not the
\* default one.
C3_Witness ==
    /\ JustOpened
    /\ NoDefaultGiven
    /\ Len(openArgs.cfs) > 0

\* The names a successful open bound in the registry.
OpenedNames ==
    IF phase \in {"open", "dropped"} /\ Len(openArgs.cfs) > 0
    THEN Range(WithDefault(openArgs.cfs))
    ELSE {}

\* C4: in both thread modes, while the Database Handle is open: a name for
\* which create_cf has returned Ok is bound in the registry, and when the
\* engine returned a handle for it, to a handle the engine made for that
\* name and has not released; cf_handle never returns an error, returns the
\* registry's handle for a name that was opened or created, and None for any
\* other name; a handle that a caller holds (the only way to put_cf and
\* get_cf) is one the engine has not released, and a put_cf that returned Ok
\* has stored its value in the column family the handle was made for, where
\* a get_cf that returned a value read it.
C4_CreateThenResolve ==
    phase = "open" =>
        /\ \A n \in createdOk :
              /\ n \in DOMAIN cfs
              /\ cfs[n] # NullPtr => (engName[cfs[n]] = n /\ engCf[cfs[n]] = "live")
        /\ ret.op = "cf_handle" =>
              /\ ret.status \in {"Ok", "None"}
              /\ ret.name \in createdOk \cup OpenedNames =>
                    (ret.status = "Ok" /\ ret.h = cfs[ret.name])
              /\ ret.name \notin createdOk \cup OpenedNames => ret.status = "None"
        /\ \A h \in Handles : refs[h] > 0 => engCf[h] = "live"
        /\ ret.op \in {"put_cf", "get_cf"} =>
              /\ ret.name = engName[ret.h]
              /\ (ret.op = "put_cf" /\ ret.status = "Ok") =>
                    data[engName[ret.h]][ret.key] = ret.val
              /\ (ret.op = "get_cf" /\ ret.status = "Ok") =>
                    data[engName[ret.h]][ret.key] = ret.val

\* C4 witness: a value read back by get_cf through the handle of a column
\* family that create_cf made.
C4_Witness ==
    /\ phase = "open"
    /\ ret.op = "get_cf"
    /\ ret.status = "Ok"
    /\ ret.name \in createdOk
    /\ ret.name \notin OpenedNames
    /\ ret.h = cfs[ret.name]

\* C5: in both thread modes, a step after which the last value returned is
\* an error of create_cf has left the registry as it was: no name added,
\* removed or rebound.
C5_FailedCreateKeepsRegistry ==
    [][(ret'.op = "create_cf" /\ ret'.status = "Err") => cfs' = cfs]_vars

\* C5 witness: create_cf has failed on a name that the registry binds.
C5_Witness ==
    /\ ret.op = "create_cf"
    /\ ret.status = "Err"
    /\ ret.name \in DOMAIN cfs
    /\ cfs[ret.name] # NullPtr

\* No two handles the engine made are for the same name, and no create_cf
\* got a null pointer: the create_cf calls so far had pairwise distinct names.
DistinctNames ==
    /\ ~NullAbout
    /\ \A g \in Handles, h \in Handles :
          (g # h /\ engCf[g] # "unissued" /\ engCf[h] # "unissued") =>
              engName[g] # engName[h]

\* Handle h is held by a create_cf call that has not inserted it yet.
InFlight(h) == \E t \in Threads : pending[t].active /\ pending[t].h = h

\* C6: MultiThreaded, while the Database Handle is open: a create_cf call
\* whose engine call succeeded can always go on to its insert, whatever the
\* other callers do; and when the names are pairwise distinct, every handle
\* whose create_cf has returned is bound under its name in the registry and
\* not released (no insert is lost).
C6_ConcurrentCreatesAllResolve ==
    (mode = "MultiThreaded" /\ phase = "open") =>
        /\ \A t \in Threads : pending[t].active => ENABLED CreateCfInsert(t)
        /\ DistinctNames =>
              \A h \in Handles :
                 (engCf[h] # "unissued" /\ ~InFlight(h)) =>
                     /\ engName[h] \in DOMAIN cfs
                     /\ cfs[engName[h]] = h
                     /\ engCf[h] = "live"

\* C6 witness: two create_cf calls with distinct names overlapped: one has
\* returned Ok and its name resolves, while a call whose engine call came
\* first (it got the smaller pointer) has not inserted yet.
C6_Witness ==
    /\ mode = "MultiThreaded"
    /\ phase = "open"
    /\ DistinctNames
    /\ ret.op = "create_cf"
    /\ ret.status = "Ok"
    /\ ret.name \in DOMAIN cfs
    /\ \E t \in Threads :
          /\ pending[t].active
          /\ pending[t].name # ret.name
          /\ pending[t].h < cfs[ret.name]

\* C7: MultiThreaded: a handle to which a caller holds a clone, or which the
\* registry of the open Database Handle holds, has not been released by the
\* engine.
C7_HeldCloneStaysValid ==
    mode = "MultiThreaded" =>
        \A h \in Handles :
           (refs[h] > 0 \/ (phase = "open" /\ InRegistry(h))) => engCf[h] = "live"

\* C7 witness: a caller holds a clone of a handle whose name a later
\* create_cf has rebound in the registry.
C7_Witness ==
    /\ mode = "MultiThreaded"
    /\ \E h \in Handles :
          /\ refs[h] > 0
          /\ ~InRegistry(h)
          /\ engName[h] \in DOMAIN cfs

\* No reference to a column family, no iterator and no call in progress
\* borrows the Database Handle.
NoLiveBorrow ==
    /\ \A h \in Handles : refs[h] = 0
    /\ iters = 0
    /\ \A t \in Threads : ~pending[t].active

\* C8: SingleThreaded: a step that changes the registry of the open Database
\* Handle, or in which create_cf returns, starts and ends with no other
\* borrow of the handle alive.
C8_ExclusiveCreate ==
    [][(/\ mode = "SingleThreaded"
        /\ phase = "open"
        /\ \/ cfs' # cfs
           \/ (ret'.op = "create_cf" /\ ret' # ret))
       => (NoLiveBorrow /\ NoLiveBorrow')]_vars

\* C8 witness: after a create_cf, two shared borrows of the handle overlap:
\* an iterator is alive while a column-family reference is held.
C8_Witness ==
    /\ mode = "SingleThreaded"
    /\ phase = "open"
    /\ createdOk # {}
    /\ iters > 0
    /\ \E h \in Handles : refs[h] > 0

\* C9 as stated: while the Database Handle is live, its engine database
\* pointer and every entry of its registry are non-null.
C9_AsStated ==
    phase = "open" =>
        /\ inner # NullPtr
        /\ \A n \in DOMAIN cfs : cfs[n] # NullPtr

\* C9, the part about open: the Database Handle that open returns has a
\* non-null database pointer and only non-null registry entries.
C9_OpenReturnsNoNull ==
    JustOpened =>
        /\ inner # NullPtr
        /\ \A n \in DOMAIN cfs : cfs[n] # NullPtr

\* The positions of the call log that hold an engine open call.
OpenPositions ==
    {i \in 1..Len(calls) : calls[i].op \in {"open", "open_column_families"}}

\* The positions of the call log that hold a directory creation.
MkdirPositions == {i \in 1..Len(calls) : calls[i].op = "create_dir_all"}

\* C10: an open whose directory cannot be created returns an error, leaves
\* no Database Handle, asks for the directory at most once and never calls
\* the engine's open; when the path converts, the error is the
\* directory-creation error and the directory was asked for exactly once.
C10_NoOpenWithoutDirectory ==
    (phase # "new" /\ ~openArgs.dirOk) =>
        /\ phase = "failed"
        /\ ret.op = "open"
        /\ ret.status = "Err"
        /\ inner = NullPtr
        /\ engDb = "none"
        /\ OpenPositions = {}
        /\ Cardinality(MkdirPositions) <= 1
        /\ to_cpath(openArgs.path).ok =>
              /\ ret.err = "Failed to create RocksDB directory"
              /\ Cardinality(MkdirPositions) = 1

\* C10 witness: an open with descriptors failed on the directory creation.
C10_Witness ==
    /\ phase = "failed"
    /\ ~openArgs.dirOk
    /\ Len(openArgs.cfs) > 0
    /\ ret.err = "Failed to create RocksDB directory"

\* C11 as stated: a begin whose engine call returned a null transaction
\* pointer hands out no Transaction: every Transaction a caller holds wraps a
\* non-null engine pointer, and no use of a Transaction ends the process on a
\* null pointer.
C11_AsStated ==
    /\ \A i \in TxnIds : txns[i].live => txns[i].inner # NullPtr
    /\ phase # "crashed"

\* The calls made through a Transaction.
TxnOps == {"txn_put", "txn_get", "txn_commit", "txn_rollback"}

\* The terminal states of a Transaction.
TxnTerminal == {"Committed", "RolledBack", "Abandoned"}

\* C12: in every step, for every transaction: a terminal state (Committed,
\* RolledBack, Abandoned) is kept; an Active one stays Active or becomes
\* terminal; a commit that returned Ok leaves it Committed, a commit that
\* returned an error leaves it Active with its buffered writes kept (so that
\* a retry or a rollback is accepted), a rollback leaves it RolledBack, and
\* the end of the object leaves it Abandoned, its buffered writes discarded
\* and the stored data as it was.
C12_TxnStateMachine ==
    [][\A i \in TxnIds :
          LET s  == txns[i].state
              s2 == txns'[i].state
              me == ret'.h = i
          IN /\ s \in TxnTerminal => s2 = s
             /\ s = "none" => s2 \in {"none", "Active"}
             /\ s = "Active" =>
                   /\ s2 \in {"Active"} \cup TxnTerminal
                   /\ (me /\ ret'.op = "txn_commit" /\ ret'.status = "Ok") => s2 = "Committed"
                   /\ (me /\ ret'.op = "txn_commit" /\ ret'.status = "Err") =>
                         /\ s2 = "Active"
                         /\ txns'[i].buf = txns[i].buf
                         /\ ENABLED TxnCommit
                         /\ ENABLED TxnRollback
                   /\ (me /\ ret'.op = "txn_rollback" /\ ret'.status = "Ok") => s2 = "RolledBack"
                   /\ (me /\ ret'.op = "txn_drop") =>
                         /\ s2 = "Abandoned"
                         /\ txns'[i].buf = NoTxn.buf
                         /\ data' = data
                   /\ s2 = "Committed" => (me /\ ret'.op = "txn_commit" /\ ret'.status = "Ok")
                   /\ s2 = "RolledBack" => (me /\ ret'.op = "txn_rollback")
                   /\ s2 = "Abandoned" => (me /\ ret'.op = "txn_drop")]_vars

\* C12 witness: a transaction whose commit failed is still Active with its
\* write buffered, next to a transaction that was committed and one can tell
\* the two apart.
C12_Witness ==
    \E i \in TxnIds, j \in TxnIds :
       /\ txns[i].state = "Active"
       /\ ret.op = "txn_commit"
       /\ ret.status = "Err"
       /\ ret.h = i
       /\ \E k \in Keys : txns[i].buf[k] # Unset
       /\ txns[j].state = "Committed"

\* C13: in every step: a get inside a transaction that has put a value under
\* the key returns that value; a put, get, rollback or end of a transaction,
\* a begin and a failed commit leave the stored data as it was; and the
\* Database Handle's get returns the stored data.  So a value put inside a
\* transaction reaches the Database Handle's get through a successful commit
\* only.
C13_TxnIsolation ==
    [][/\ (ret'.op = "txn_get" /\ ret'.status \in {"Ok", "None"}) =>
             (txns[ret'.h].buf[ret'.key] # Unset =>
                 (ret'.status = "Ok" /\ ret'.val = txns[ret'.h].buf[ret'.key]))
       /\ (\/ ret'.op \in {"transaction", "txn_put", "txn_get", "txn_rollback", "txn_drop"}
           \/ (ret'.op = "txn_commit" /\ ret'.status = "Err")) => data' = data
       /\ (ret'.op = "get" /\ ret'.status # "Err") =>
             /\ ret'.val = data[DEFAULT_COLUMN_FAMILY_NAME][ret'.key]
             /\ data' = data]_vars

\* C13 witness: the Database Handle's get has returned something else than
\* the value an Active transaction holds under the key.
C13_Witness ==
    /\ ret.op = "get"
    /\ ret.status # "Err"
    /\ \E i \in TxnIds :
          /\ txns[i].state = "Active"
          /\ txns[i].buf[ret.key] # Unset
          /\ txns[i].buf[ret.key] # ret.val

\* C14: once the engine database is closed, or the Database Handle dropped,
\* no Transaction begun from it is alive; and the last call made through a
\* Transaction found the engine database open.
C14_TxnWithinDbLife ==
    /\ (engDb = "closed" \/ phase = "dropped") => \A i \in TxnIds : ~txns[i].live
    /\ ret.op \in TxnOps \cup {"transaction", "txn_drop"} => engDb = "open"

\* C14 witness: the Database Handle was dropped after a transaction that
\* committed and one that was abandoned had gone.
C14_Witness ==
    /\ phase = "dropped"
    /\ \E i \in TxnIds, j \in TxnIds :
          /\ txns[i].state = "Committed"
          /\ txns[j].state = "Abandoned"

\* C15: on an open Database Handle, a get of key k that comes right after a
\* put(k, v) that returned Ok (no call that returns in between, so no write
\* to k) and that the engine does not fail returns Some(v); right after a
\* delete(k) that returned Ok it returns None.
C15_PutGetRoundTrip ==
    [][(/\ ret'.op = "get"
        /\ ret'.status # "Err"
        /\ ret.status = "Ok"
        /\ ret'.key = ret.key) =>
          /\ ret.op = "put" => (ret'.status = "Ok" /\ ret'.val = ret.val)
          /\ ret.op = "delete" => (ret'.status = "None" /\ ret'.val = NoVal)]_vars

\* C15 witness: a get has returned a value on a Database Handle that has no
\* column-family handle, so that the value was written to the default column
\* family directly.
C15_Witness ==
    /\ ret.op = "get"
    /\ ret.status = "Ok"
    /\ ret.val \in Vals
    /\ Issued = 0

\* The calls that write through a column-family handle, and those that write
\* to the default column family.
CfWrites == {"put_cf", "merge_cf", "delete_cf"}

DefaultWrites == {"put", "merge", "delete"}

\* C16: in every step: a put_cf, merge_cf or delete_cf through the handle of
\* a column family other than the default one leaves the stored data of the
\* default column family, and of every column family but the handle's, as it
\* was; a put, merge or delete leaves every column family but the default
\* one as it was; get returns the default column family's value and get_cf
\* the value of the handle's column family.
C16_WritesScopedToCf ==
    [][/\ (ret'.op \in CfWrites /\ engName[ret'.h] # DEFAULT_COLUMN_FAMILY_NAME) =>
             \A n \in Names \ {engName[ret'.h]} : data'[n] = data[n]
       /\ ret'.op \in DefaultWrites =>
             \A n \in Names \ {DEFAULT_COLUMN_FAMILY_NAME} : data'[n] = data[n]
       /\ (ret'.op = "get" /\ ret'.status # "Err") =>
             ret'.val = data'[DEFAULT_COLUMN_FAMILY_NAME][ret'.key]
       /\ (ret'.op = "get_cf" /\ ret'.status # "Err") =>
             ret'.val = data'[engName[ret'.h]][ret'.key]]_vars

\* C16 witness: the same key holds different values in the default column
\* family and in a named one, and get_cf has returned the named one's.
C16_Witness ==
    /\ ret.op = "get_cf"
    /\ ret.status = "Ok"
    /\ engName[ret.h] # DEFAULT_COLUMN_FAMILY_NAME
    /\ data[DEFAULT_COLUMN_FAMILY_NAME][ret.key] # NoVal
    /\ data[DEFAULT_COLUMN_FAMILY_NAME][ret.key] # ret.val

\* C17: the last get or get_cf made one engine lookup and returned, of three
\* outcomes, the one that goes with the engine's answer: an error for an
\* error, None without a value for no error and a null pointer, the value
\* for a non-null pointer.
C17_GetOutcomes ==
    ret.op \in {"get", "get_cf"} =>
        /\ engGet.n = 1
        /\ ret.status \in {"Err", "None", "Ok"}
        /\ engGet.err <=> ret.status = "Err"
        /\ (~engGet.err /\ engGet.val_ptr = NoVal) <=> ret.status = "None"
        /\ (~engGet.err /\ engGet.val_ptr # NoVal) <=> ret.status = "Ok"
        /\ ret.status = "Ok" => ret.val = engGet.val_ptr
        /\ ret.status # "Ok" => ret.val = NoVal

\* C17 witness: the engine failed a get_cf of a key that holds a value, and
\* the call returned the error.
C17_Witness ==
    /\ ret.op = "get_cf"
    /\ ret.status = "Err"
    /\ data[engName[ret.h]][ret.key] # NoVal

\* The last position of the descriptor list given to open that carries the
\* name of position i.
LastPositionOf(i) ==
    CHOOSE j \in i..Len(openArgs.cfs) :
        /\ openArgs.cfs[j] = openArgs.cfs[i]
        /\ \A l \in (j + 1)..Len(openArgs.cfs) : openArgs.cfs[l] # openArgs.cfs[i]

\* The engine's open calls in the log agree with a single multi-column-family
\* open of the given descriptors in input order, followed by a default
\* descriptor when none was given: the handle of position i is for the name
\* of descriptor i.
OpenedInInputOrder ==
    /\ Cardinality({i \in OpenPositions : calls[i].op = "open_column_families"}) = 1
    /\ Cardinality(OpenPositions) = 1
    /\ \A i \in 1..Len(openArgs.cfs) : engName[i] = openArgs.cfs[i]
    /\ NoDefaultGiven =>
          engName[Len(openArgs.cfs) + 1] = DEFAULT_COLUMN_FAMILY_NAME
    /\ \A h \in 1..(Len(openArgs.cfs) + (IF NoDefaultGiven THEN 1 ELSE 0)) :
          engCf[h] # "unissued"

C19_PlainOpenEmptyRegistry ==
    (phase # "new" /\ Len(openArgs.cfs) = 0) =>
        /\ \A i \in OpenPositions : calls[i].op = "open"
        /\ Cardinality(OpenPositions) <= 1
        /\ phase = "open" =>
              /\ Cardinality(OpenPositions) = 1
              /\ DOMAIN cfs = createdOk
              /\ (ret.op = "cf_handle" /\ ret.name \notin createdOk) => ret.status = "None"
              /\ JustOpened => cfs = EmptyMap

\* C19 witness: cf_handle has returned None on a Database Handle opened
\* with no descriptors, no create_cf having returned Ok.
C19_Witness ==
    /\ phase = "open"
    /\ Len(openArgs.cfs) = 0
    /\ createdOk = {}
    /\ ret.op = "cf_handle"
    /\ ret.status = "None"

\* The positions of the call log that hold the release of an option resource.
ReleasePositions == {i \in 1..Len(calls) : calls[i].op = "options_release"}

\* C20: while the Database Handle is open, its _outlive holds the owner of
\* the database options and the owner of each descriptor given to open, and
\* the resources of all of them are alive; up to and after the drop of the
\* Database Handle, each release of such a resource comes after the close of
\* the database in the call log.
C20_OutliveKeepsOptions ==
    /\ phase = "open" =>
          /\ Range(outlive) = 0..Len(openArgs.cfs)
          /\ \A o \in 0..Len(openArgs.cfs) : optRes[o] = "alive"
    /\ phase \in {"open", "dropped"} =>
          \A j \in ReleasePositions : \E i \in ClosePositions : i < j

\* C20 witness: the caller has let go of its Options and the Database
\* Handle, opened with two descriptors, is still open.
C20_Witness ==
    /\ phase = "open"
    /\ ~callerOpts
    /\ Len(openArgs.cfs) = 2

\* C21 as stated: once an open has returned an error, the engine holds no
\* open database and no unreleased column-family handle from the attempt.
C21_AsStated ==
    phase = "failed" =>
        /\ engDb # "open"
        /\ \A h \in Handles : engCf[h] # "live"

\* The operations that take the Database Handle and are no create_cf.
RegistryReaders ==
    {"get", "put", "merge", "delete", "write", "cf_handle", "transaction",
     "snapshot", "iterator"}

\* C22: while the Database Handle is open the registry only grows, and only
\* through create_cf: no step removes a name; a step that changes the
\* registry is a successful create_cf(n) and leaves every name other than n
\* bound to the handle it had; get, put, merge, delete, write, cf_handle,
\* transaction, snapshot and iterator creation leave the registry as it was.
C22_RegistryOnlyGrows ==
    [][(phase = "open" /\ phase' = "open") =>
          /\ DOMAIN cfs \subseteq DOMAIN cfs'
          /\ cfs' # cfs =>
                /\ ret'.op = "create_cf"
                /\ ret'.status = "Ok"
                /\ ret'.name \in DOMAIN cfs'
                /\ \A n \in DOMAIN cfs \ {ret'.name} : cfs'[n] = cfs[n]
          /\ ret'.op \in RegistryReaders => cfs' = cfs]_vars

\* A create_cf has returned Ok with two names bound in the registry, to two
\* different engine handles: the second create_cf found the first name bound.
C22_Witness ==
    /\ phase = "open"
    /\ ret.op = "create_cf"
    /\ ret.status = "Ok"
    /\ \E n, m \in DOMAIN cfs :
          /\ n # m
          /\ cfs[n] # NullPtr
          /\ cfs[m] # NullPtr
          /\ cfs[n] # cfs[m]

====
